---- MODULE Spec2Model ----
(***************************************************************************)
(* Model of SheetsHandler (src/themes/prueba.py): a thin adapter between   *)
(* application code and a remote spreadsheet service (gspread).            *)
(*                                                                         *)
(* The remote worksheet is a grid of strings.  Every remote call of a      *)
(* handler is one step of the model, so that another writer of the same    *)
(* sheet (ExternalEdit) can interleave between the remote calls of         *)
(* update_record and deactivate_all_processes.  Each remote call ends in   *)
(* one of the outcomes the client library can produce: success, an error   *)
(* derived from gspread.exceptions.GSpreadException, or any other error    *)
(* (for instance a transport error of the HTTP layer).  A remote call that *)
(* fails is taken to have had no effect on the sheet.                      *)
(***************************************************************************)
EXTENDS Integers, Sequences, FiniteSets, TLC

(***************************************************************************)
(* Bounds of the model.                                                    *)
(***************************************************************************)
\* rows of the worksheet, the header row included
NRows == 3
\* public operations called on one adapter in one behaviour
MaxOps == 1
\* edits of the other writer in one behaviour
MaxEdits == 1

(***************************************************************************)
(* Program constants.                                                      *)
(***************************************************************************)
\* worksheet.findall("SI", in_column=10)
StatusCol == 10
ActiveMarker == "SI"
InactiveMarker == "NO"
\* keys read from the configuration
SheetUrl == "procesos_sheet_url"
NoUrl == "None"

(***************************************************************************)
(* Python values that reach str(): identifier_value is typed Any.          *)
(***************************************************************************)
PyStr(s) == [t |-> "str", s |-> s, n |-> 0]
PyInt(n) == [t |-> "int", s |-> "", n |-> n]

DigitStr(d) ==
  CASE d = 0 -> "0" [] d = 1 -> "1" [] d = 2 -> "2" [] d = 3 -> "3"
    [] d = 4 -> "4" [] d = 5 -> "5" [] d = 6 -> "6" [] d = 7 -> "7"
    [] d = 8 -> "8" [] d = 9 -> "9"

RECURSIVE NatStr(_)
NatStr(n) == IF n < 10 THEN DigitStr(n) ELSE NatStr(n \div 10) \o DigitStr(n % 10)

\* str(identifier_value)
Str(v) ==
  IF v.t = "str" THEN v.s
  ELSE IF v.n < 0 THEN "-" \o NatStr(0 - v.n) ELSE NatStr(v.n)

(***************************************************************************)
(* The worksheet: a sequence of rows, each a sequence of cell strings.     *)
(***************************************************************************)
Rows(s) == 1..Len(s)
Cols(s) == IF Len(s) = 0 THEN {} ELSE 1..Len(s[1])

NoCell == [row |-> 0, col |-> 0]
Cell(r, c) == [row |-> r, col |-> c]

\* cells in the order the client scans them: by row, then by column
Before(a, b) == a.row < b.row \/ (a.row = b.row /\ a.col < b.col)

Matches(s, q, cols) == {Cell(r, c) : r \in Rows(s), c \in cols} \cap
                       {x \in [row : Rows(s), col : Cols(s)] : s[x.row][x.col] = q}

First(cells) ==
  IF cells = {} THEN NoCell
  ELSE CHOOSE x \in cells : \A y \in cells : y = x \/ Before(x, y)

\* worksheet.find(query): the first cell of the whole sheet holding query
Find(s, q) == First(Matches(s, q, Cols(s)))

\* a slip of find: in_column is forgotten
FindAnyColumn(s, q, col) == First(Matches(s, q, Cols(s)))

\* worksheet.find(query, in_column=col)
FindInColumn(s, q, col) == First(Matches(s, q, Cols(s) \cap {col}))

RECURSIVE SortRows(_)
SortRows(rs) ==
  IF rs = {} THEN <<>>
  ELSE LET m == CHOOSE r \in rs : \A x \in rs : r <= x
       IN <<m>> \o SortRows(rs \ {m})

\* a slip of findall: the header row is skipped
FindAllBelowHeader(s, q, col) ==
  SortRows({x.row : x \in Matches(s, q, Cols(s) \cap {col})} \ {1})

\* worksheet.findall(query, in_column=col): the rows of the matches, in order
FindAllInColumn(s, q, col) ==
  SortRows({x.row : x \in Matches(s, q, Cols(s) \cap {col})})

RECURSIVE Trim(_)
Trim(row) ==
  IF Len(row) > 0 /\ row[Len(row)] = "" THEN Trim(SubSeq(row, 1, Len(row) - 1))
  ELSE row

\* worksheet.row_values(r): the row without its trailing empty cells
RowValues(s, r) == IF r \in Rows(s) THEN Trim(s[r]) ELSE <<>>

\* worksheet.col_values(c): the column without its trailing empty cells
ColValues(s, c) == IF c \in Cols(s) THEN Trim([r \in Rows(s) |-> s[r][c]]) ELSE <<>>

InSeq(x, sq) == \E i \in 1..Len(sq) : sq[i] = x

\* a slip of headers.index: the position of the last occurrence
HeaderIndexLast(headers, name) ==
  (CHOOSE i \in 1..Len(headers) :
     headers[i] = name /\ \A j \in (i + 1)..Len(headers) : headers[j] # name)

\* headers.index(name) + 1: the position of the first occurrence
HeaderIndex(headers, name) ==
  (CHOOSE i \in 1..Len(headers) :
     headers[i] = name /\ \A j \in 1..(i - 1) : headers[j] # name)

\* worksheet.update_cell(row, col, value)
UpdateCell(s, r, c, v) == [s EXCEPT ![r][c] = v]

\* worksheet.get_all_records(): one record per data row, keyed by the header
\* row (a repeated header keeps the value of its last column)
GetAllRecords(s) ==
  IF Len(s) = 0 THEN <<>>
  ELSE [i \in 1..(Len(s) - 1) |->
          [h \in {s[1][c] : c \in Cols(s)} |->
             s[i + 1][CHOOSE c \in Cols(s) :
                        s[1][c] = h /\ \A d \in Cols(s) : s[1][d] = h => d <= c]]]

Tail1(sq) == IF Len(sq) = 0 THEN <<>> ELSE Tail(sq)


(***************************************************************************)
(* The configuration resource and json.load's result.                      *)
(***************************************************************************)
\* a parsed JSON value: t is its Python type, n its len(), cred and url what
\* .get('google_credentials_path') and .get('procesos_sheet_url') find
Json(t, cred, url) ==
  [t |-> t, cred |-> cred, url |-> url,
   n |-> IF t = "dict"
         THEN (IF cred = "absent" THEN 0 ELSE 1) + (IF url = NoUrl THEN 0 ELSE 1)
         ELSE IF t = "list1" THEN 1 ELSE 0]

\* Python's None, also what json.load returns for the document null
None == Json("None", "absent", NoUrl)

\* cred: "absent" (no key), "nofile" (a path os.path.exists rejects), "file"
JsonValues ==
  {None, Json("list0", "absent", NoUrl), Json("list1", "absent", NoUrl)} \cup
  {Json("dict", c, u) : c \in {"absent", "nofile", "file"}, u \in {NoUrl, SheetUrl}}

\* state: "missing" (os.path.exists is false), "undecodable" (bytes that are
\* not UTF-8), "invalid" (not JSON), "json" (parses to the value json)
File(state, json) == [state |-> state, json |-> json]

ConfigFiles ==
  {File(st, None) : st \in {"missing", "undecodable", "invalid"}} \cup
  {File("json", j) : j \in JsonValues}

GoodConfig == File("json", Json("dict", "file", SheetUrl))

\* bool(config)
Truthy(v) == v.t \in {"dict", "list1"} /\ v.n > 0

\* config has a .get method
HasGet(v) == v.t = "dict"

\* _load_config: the value returned, and whether an exception escapes
LoadConfig(f) ==
  IF f.state = "missing" THEN [raised |-> FALSE, val |-> None]
  ELSE IF f.state = "invalid" THEN [raised |-> FALSE, val |-> None]
  ELSE IF f.state = "undecodable" THEN [raised |-> TRUE, val |-> None]
  ELSE [raised |-> FALSE, val |-> f.json]

\* outcomes of one remote call
CallOutcomes == {"ok", "gspread", "other"}

\* authenticate(): "skip" (returns before the remote call), "raise" (.get on a
\* value without it), or the outcomes of gspread.service_account
AuthOutcomes(cfg) ==
  IF ~Truthy(cfg) THEN {"skip"}
  ELSE IF ~HasGet(cfg) THEN {"raise"}
  ELSE IF cfg.cred # "file" THEN {"skip"}
  ELSE CallOutcomes

(***************************************************************************)
(* Inputs.                                                                 *)
(***************************************************************************)
Names == {"id", "obj", "1"}
Markers == {ActiveMarker, InactiveMarker}
OtherUrl == "other_url"
Urls == {SheetUrl, OtherUrl}
IdColumns == {"id"}
IdValues == {PyInt(1), PyStr("id")}
UpdColumns == {"obj", "id"}
NewValues == {"new"}
EditValues == {"ext"}
NewRows == {<<"1", "new">>}

\* the worksheet of the specification's examples, widened to the status column
ExampleRow(r, st) ==
  [c \in 1..StatusCol |->
     IF c = 1 THEN (IF r = 1 THEN "id" ELSE "1")
     ELSE IF c = 2 THEN "obj"
     ELSE IF c = StatusCol THEN st
     ELSE ""]

\* sheets with a status column that holds markers
StatusSheets ==
  {[r \in 1..NRows |-> ExampleRow(r, m[r])] : m \in [1..NRows -> Markers]}

\* two-column sheets: any header row over Names, data rows among DataRows
HeaderRows == [1..2 -> Names]
DataRows == {<<"1", "new">>, <<"id", "obj">>}
DataSheets ==
  {[r \in 1..NRows |-> IF r = 1 THEN h ELSE d[r]] :
     h \in HeaderRows, d \in [2..NRows -> DataRows]}

ExampleSheet == [r \in 1..NRows |-> ExampleRow(r, ActiveMarker)]

NoArgs == [url |-> NoUrl, idcol |-> "", idval |-> PyStr(""), col |-> "",
           newval |-> "", row |-> <<>>]

(***************************************************************************)
(* State.                                                                  *)
(***************************************************************************)
VARIABLES
  configFile,  \* the configuration resource at config_path
  config,      \* self.config
  gc,          \* self.gc is set (a session exists)
  initRaised,  \* __init__ ended by raising
  sheet,       \* the remote worksheet
  pc,          \* "new", "idle", a position inside a handler, or "done"
  op,          \* the public operation being run
  args,        \* its arguments
  sheet0,      \* the worksheet when the operation was called
  ret,         \* "none", "True", "False", "list", "None" or "raised"
  retList,     \* the sequence returned when ret = "list"
  calls,       \* remote calls issued by the operation
  writes,      \* write-cell calls issued by the operation
  edited,      \* the other writer edited the sheet during the operation
  miss,        \* the lookup of update_record that found nothing
  err,         \* the outcome that ended the operation (or the construction)
  hcell,       \* header_cell
  rowIdx,      \* row_index
  colIdx,      \* col_index_to_update
  active,      \* rows of active_cells
  k,           \* position of the loop over active_cells
  staleRow,    \* at the write, the row's identifier cell was not the identifier
  staleCol,    \* at the write, the column's header was not column_to_update
  nOps,        \* operations called so far
  nEdits       \* edits of the other writer so far

adapter == <<configFile, config, gc, initRaised>>
locals == <<hcell, rowIdx, colIdx, active, k>>
stale == <<staleRow, staleCol>>
vars == <<configFile, config, gc, initRaised, sheet, pc, op, args, sheet0, ret,
          retList, calls, writes, edited, miss, err, hcell, rowIdx, colIdx,
          active, k, staleRow, staleCol, nOps, nEdits>>

Init ==
  /\ \/ configFile \in ConfigFiles /\ sheet = ExampleSheet
     \/ configFile = GoodConfig /\ sheet \in StatusSheets \cup DataSheets
  /\ config = None
  /\ gc = FALSE
  /\ initRaised = FALSE
  /\ pc = "new"
  /\ op = "none"
  /\ args = NoArgs
  /\ sheet0 = sheet
  /\ ret = "none"
  /\ retList = <<>>
  /\ calls = 0
  /\ writes = 0
  /\ edited = FALSE
  /\ miss = "none"
  /\ err = "none"
  /\ hcell = NoCell
  /\ rowIdx = 0
  /\ colIdx = 0
  /\ active = <<>>
  /\ k = 0
  /\ staleRow = FALSE
  /\ staleCol = FALSE
  /\ nOps = 0
  /\ nEdits = 0

(***************************************************************************)
(* __init__: _load_config, then authenticate() when the configuration is   *)
(* truthy.                                                                 *)
(***************************************************************************)
Construct ==
  /\ pc = "new"
  /\ LET l == LoadConfig(configFile) IN
       IF l.raised
       THEN /\ initRaised' = TRUE
            /\ pc' = "init_raised"
            /\ err' = "load"
            /\ UNCHANGED <<config, gc>>
       ELSE \E o \in AuthOutcomes(l.val) :
              /\ config' = l.val
              /\ gc' = (o = "ok")
              /\ initRaised' = (o = "raise")
              /\ pc' = IF o = "raise" THEN "init_raised" ELSE "idle"
              /\ err' = o
  /\ UNCHANGED <<configFile, sheet, op, args, sheet0, ret, retList, calls,
                 writes, edited, miss, locals, stale, nOps, nEdits>>

(***************************************************************************)
(* Calling and returning from a public operation.                          *)
(***************************************************************************)
\* the call: the operation and its arguments are recorded, the sheet as it
\* is now is remembered
Begin(o, a) ==
  /\ pc = "idle"
  /\ nOps < MaxOps
  /\ nOps' = nOps + 1
  /\ op' = o
  /\ args' = a
  /\ sheet0' = sheet
  /\ edited' = FALSE
  /\ UNCHANGED <<configFile, config, initRaised, staleRow, staleCol, nEdits>>

\* the operation ends: by a return of r (with the sequence rl) or by raising
End(r, rl, e) ==
  /\ pc' = "done"
  /\ ret' = r
  /\ retList' = rl
  /\ err' = e

\* _get_worksheet: "unauth" without a session (no remote call), else the
\* outcomes of open_by_url and sheet1
ResolveOutcomes(url) ==
  IF ~gc THEN {"unauth"}
  ELSE IF url = SheetUrl THEN CallOutcomes
  ELSE IF url = NoUrl THEN {"gspread", "other"}
  ELSE {"notfound", "gspread", "other"}

\* _get_worksheet catches SpreadsheetNotFound and GSpreadException only
ResolveRaises(o) == o = "other"

ResolveCalls(o) == IF o = "unauth" THEN 0 ELSE 1

\* the caller has seen the result
Return ==
  /\ pc = "done"
  /\ pc' = "idle"
  /\ op' = "none"
  /\ args' = NoArgs
  /\ sheet0' = sheet
  /\ ret' = "none"
  /\ retList' = <<>>
  /\ calls' = 0
  /\ writes' = 0
  /\ edited' = FALSE
  /\ miss' = "none"
  /\ err' = "none"
  /\ hcell' = NoCell
  /\ rowIdx' = 0
  /\ colIdx' = 0
  /\ active' = <<>>
  /\ k' = 0
  /\ staleRow' = FALSE
  /\ staleCol' = FALSE
  /\ UNCHANGED <<adapter, sheet, nOps, nEdits>>


(***************************************************************************)
(* authenticate(), called again by the application.                        *)
(***************************************************************************)
Authenticate ==
  /\ Begin("authenticate", NoArgs)
  /\ \E o \in AuthOutcomes(config) :
       /\ gc' = (gc \/ o = "ok")
       /\ calls' = IF o \in CallOutcomes THEN 1 ELSE 0
       /\ End(IF o = "raise" THEN "raised" ELSE "None", <<>>, o)
  /\ UNCHANGED <<sheet, writes, miss, locals>>

(***************************************************************************)
(* The reading operations: the worksheet is resolved, then read once.      *)
(***************************************************************************)
\* a handler that catches GSpreadException only around one read of the sheet
ReadOp(o, a, result) ==
  /\ Begin(o, a)
  /\ \E o1 \in ResolveOutcomes(a.url) :
       IF o1 # "ok"
       THEN /\ calls' = ResolveCalls(o1)
            /\ End(IF ResolveRaises(o1) THEN "raised" ELSE "list", <<>>, o1)
       ELSE \E o2 \in CallOutcomes :
              /\ calls' = 2
              /\ End(IF o2 = "other" THEN "raised" ELSE "list",
                     IF o2 = "ok" THEN result ELSE <<>>, o2)
  /\ UNCHANGED <<gc, sheet, writes, miss, locals>>

\* get_sheet_records(sheet_url)
GetSheetRecords ==
  \E u \in Urls : ReadOp("get_sheet_records", [NoArgs EXCEPT !.url = u],
                         GetAllRecords(sheet))

\* get_sheet_headers(sheet_url)
GetSheetHeaders ==
  \E u \in Urls : ReadOp("get_sheet_headers", [NoArgs EXCEPT !.url = u],
                         RowValues(sheet, 1))

\* self.config.get('procesos_sheet_url') raises when config has no .get
ConfigGetRaises ==
  /\ ~HasGet(config)
  /\ calls' = 0
  /\ End("raised", <<>>, "attribute")
  /\ UNCHANGED <<gc, sheet, writes, miss, locals>>

\* get_all_process_numbers()
GetAllProcessNumbers ==
  \/ /\ Begin("get_all_process_numbers", NoArgs)
     /\ ConfigGetRaises
  \/ /\ HasGet(config)
     /\ ReadOp("get_all_process_numbers", [NoArgs EXCEPT !.url = config.url],
               Tail1(ColValues(sheet, 1)))

(***************************************************************************)
(* add_new_process(process_data_list)                                      *)
(***************************************************************************)
\* worksheet.append_row(values): a new last row, padded to the grid's width
AppendRow(s, v) ==
  Append(s, [c \in Cols(s) |-> IF c <= Len(v) THEN v[c] ELSE ""])

AddNewProcess ==
  \E v \in NewRows :
    \/ /\ Begin("add_new_process", [NoArgs EXCEPT !.row = v])
       /\ ConfigGetRaises
    \/ /\ HasGet(config)
       /\ Begin("add_new_process", [NoArgs EXCEPT !.row = v])
       /\ \E o1 \in ResolveOutcomes(config.url) :
            IF o1 # "ok"
            THEN /\ calls' = ResolveCalls(o1)
                 /\ End(IF ResolveRaises(o1) THEN "raised" ELSE "False", <<>>, o1)
                 /\ UNCHANGED <<sheet, writes>>
            ELSE \E o2 \in CallOutcomes :
                   /\ calls' = 2
                   /\ End(IF o2 = "other" THEN "raised"
                          ELSE IF o2 = "ok" THEN "True" ELSE "False", <<>>, o2)
                   /\ sheet' = IF o2 = "ok" THEN AppendRow(sheet, v) ELSE sheet
                   /\ writes' = writes
       /\ UNCHANGED <<gc, miss, locals>>

(***************************************************************************)
(* update_record(sheet_url, identifier_column, identifier_value,           *)
(*               column_to_update, new_value)                              *)
(***************************************************************************)
\* worksheet = self._get_worksheet(sheet_url); if not worksheet: return False
UpdateRecord ==
  \E u \in Urls, ic \in IdColumns, iv \in IdValues, cu \in UpdColumns,
     nv \in NewValues :
    /\ Begin("update_record",
             [NoArgs EXCEPT !.url = u, !.idcol = ic, !.idval = iv, !.col = cu,
                            !.newval = nv])
    /\ \E o1 \in ResolveOutcomes(u) :
         /\ calls' = ResolveCalls(o1)
         /\ IF o1 = "ok"
            THEN /\ pc' = "ur_find_header"
                 /\ UNCHANGED <<ret, retList, err>>
            ELSE End(IF ResolveRaises(o1) THEN "raised" ELSE "False", <<>>, o1)
    /\ UNCHANGED <<gc, sheet, writes, miss, locals>>

\* what every step of update_record leaves alone
urFrame == <<adapter, op, args, sheet0, edited, active, k, nOps, nEdits>>

\* both except clauses of update_record return False
UrFail(o) ==
  /\ End("False", <<>>, o)
  /\ UNCHANGED <<sheet, writes, miss, hcell, rowIdx, colIdx, stale>>

\* a slip of the lookups: the cell is written before the lookup is checked
UrMissAfterWrite(m) ==
  /\ End("False", <<>>, "none")
  /\ miss' = m
  /\ sheet' = UpdateCell(sheet, 1, 1, args.newval)
  /\ writes' = writes + 1
  /\ UNCHANGED <<hcell, rowIdx, colIdx, stale>>

\* a lookup found nothing: return False
UrMiss(m) ==
  /\ End("False", <<>>, "none")
  /\ miss' = m
  /\ UNCHANGED <<sheet, writes, hcell, rowIdx, colIdx, stale>>

\* header_cell = worksheet.find(identifier_column)
UrFindHeader ==
  /\ pc = "ur_find_header"
  /\ calls' = calls + 1
  /\ \E o \in CallOutcomes :
       IF o # "ok" THEN UrFail(o)
       ELSE LET c == Find(sheet, args.idcol) IN
              IF c = NoCell THEN UrMiss("identifier_column")
              ELSE /\ hcell' = c
                   /\ pc' = "ur_find_row"
                   /\ UNCHANGED <<sheet, writes, miss, ret, retList, err, rowIdx,
                                  colIdx, stale>>
  /\ UNCHANGED urFrame

\* cell_to_find = worksheet.find(str(identifier_value), in_column=header_cell.col)
UrFindRow ==
  /\ pc = "ur_find_row"
  /\ calls' = calls + 1
  /\ \E o \in CallOutcomes :
       IF o # "ok" THEN UrFail(o)
       ELSE LET c == FindInColumn(sheet, Str(args.idval), hcell.col) IN
              IF c = NoCell THEN UrMiss("identifier_value")
              ELSE /\ rowIdx' = c.row
                   /\ pc' = "ur_headers"
                   /\ UNCHANGED <<sheet, writes, miss, ret, retList, err, hcell,
                                  colIdx, stale>>
  /\ UNCHANGED urFrame

\* headers = worksheet.row_values(1); col_index_to_update = headers.index(...) + 1
UrHeaders ==
  /\ pc = "ur_headers"
  /\ calls' = calls + 1
  /\ \E o \in CallOutcomes :
       IF o # "ok" THEN UrFail(o)
       ELSE LET headers == RowValues(sheet, 1) IN
              IF ~InSeq(args.col, headers) THEN UrMiss("column_to_update")
              ELSE /\ colIdx' = HeaderIndex(headers, args.col)
                   /\ pc' = "ur_write"
                   /\ UNCHANGED <<sheet, writes, miss, ret, retList, err, hcell,
                                  rowIdx, stale>>
  /\ UNCHANGED urFrame

\* worksheet.update_cell(row_index, col_index_to_update, new_value); return True
UrWrite ==
  /\ pc = "ur_write"
  /\ calls' = calls + 1
  /\ \E o \in CallOutcomes :
       IF o # "ok" THEN UrFail(o)
       ELSE /\ sheet' = UpdateCell(sheet, rowIdx, colIdx, args.newval)
            /\ writes' = writes + 1
            /\ staleRow' = (sheet[rowIdx][hcell.col] # Str(args.idval))
            /\ staleCol' = (sheet[1][colIdx] # args.col)
            /\ End("True", <<>>, "none")
            /\ UNCHANGED <<miss, hcell, rowIdx, colIdx>>
  /\ UNCHANGED urFrame

(***************************************************************************)
(* deactivate_all_processes()                                              *)
(***************************************************************************)
DeactivateAllProcesses ==
  \/ /\ Begin("deactivate_all_processes", NoArgs)
     /\ ConfigGetRaises
  \/ /\ HasGet(config)
     /\ Begin("deactivate_all_processes", [NoArgs EXCEPT !.url = config.url])
     /\ \E o1 \in ResolveOutcomes(config.url) :
          /\ calls' = ResolveCalls(o1)
          /\ IF o1 = "ok"
             THEN /\ pc' = "da_findall"
                  /\ UNCHANGED <<ret, retList, err>>
             ELSE End(IF ResolveRaises(o1) THEN "raised" ELSE "False", <<>>, o1)
     /\ UNCHANGED <<gc, sheet, writes, miss, locals>>

daFrame == <<adapter, op, args, sheet0, edited, miss, hcell, rowIdx, colIdx,
             stale, nOps, nEdits>>

\* a variant that undoes the batch when a call fails
DaFailRollback(o) ==
  /\ End(IF o = "other" THEN "raised" ELSE "False", <<>>, o)
  /\ sheet' = sheet0
  /\ UNCHANGED <<writes, active, k>>

\* except GSpreadException: return False; any other error leaves the handler
DaFail(o) ==
  /\ End(IF o = "other" THEN "raised" ELSE "False", <<>>, o)
  /\ UNCHANGED <<sheet, writes, active, k>>

\* active_cells = worksheet.findall("SI", in_column=10); with no cell found
\* the loop body never runs and the handler returns True
DaFindAll ==
  /\ pc = "da_findall"
  /\ calls' = calls + 1
  /\ \E o \in CallOutcomes :
       IF o # "ok" THEN DaFail(o)
       ELSE LET found == FindAllInColumn(sheet, ActiveMarker, StatusCol) IN
              /\ active' = found
              /\ k' = 1
              /\ UNCHANGED <<sheet, writes>>
              /\ IF Len(found) = 0 THEN End("True", <<>>, "none")
                 ELSE /\ pc' = "da_write"
                      /\ UNCHANGED <<ret, retList, err>>
  /\ UNCHANGED daFrame

\* one turn of the loop: worksheet.update_cell(cell.row, cell.col, "NO");
\* after the last one the handler returns True
DaWrite ==
  /\ pc = "da_write"
  /\ calls' = calls + 1
  /\ \E o \in CallOutcomes :
       IF o # "ok" THEN DaFail(o)
       ELSE /\ sheet' = UpdateCell(sheet, active[k], StatusCol, InactiveMarker)
            /\ writes' = writes + 1
            /\ k' = k + 1
            /\ active' = active
            /\ IF k = Len(active) THEN End("True", <<>>, "none")
               ELSE /\ pc' = "da_write"
                    /\ UNCHANGED <<ret, retList, err>>
  /\ UNCHANGED daFrame

(***************************************************************************)
(* Another writer of the same sheet: one cell is overwritten.              *)
(***************************************************************************)
InCall == pc \notin {"new", "init_raised", "idle", "done"}

ExternalEdit ==
  /\ InCall
  /\ nEdits < MaxEdits
  /\ nEdits' = nEdits + 1
  /\ \E r \in Rows(sheet), c \in Cols(sheet), v \in EditValues :
       /\ sheet[r][c] # ""
       /\ sheet[r][c] # v
       /\ sheet' = UpdateCell(sheet, r, c, v)
  /\ edited' = TRUE
  /\ UNCHANGED <<adapter, pc, op, args, sheet0, ret, retList, calls, writes,
                 miss, err, locals, stale, nOps>>

Next ==
  \/ Construct
  \/ Authenticate
  \/ GetSheetRecords
  \/ GetSheetHeaders
  \/ GetAllProcessNumbers
  \/ AddNewProcess
  \/ UpdateRecord
  \/ UrFindHeader
  \/ UrFindRow
  \/ UrHeaders
  \/ UrWrite
  \/ DeactivateAllProcesses
  \/ DaFindAll
  \/ DaWrite
  \/ ExternalEdit
  \/ Return

Spec == Init /\ [][Next]_vars


(***************************************************************************)
(* Vocabulary of the properties.                                           *)
(***************************************************************************)
DataOps == {"get_sheet_records", "get_sheet_headers", "update_record",
            "get_all_process_numbers", "deactivate_all_processes",
            "add_new_process"}
ListOps == {"get_sheet_records", "get_sheet_headers", "get_all_process_numbers"}

\* the declared sentinel of an operation: an empty sequence, or false
ReturnsSentinel ==
  IF op \in ListOps THEN ret = "list" /\ Len(retList) = 0 ELSE ret = "False"

Done(o) == pc = "done" /\ op = o

\* the adapter has just been constructed (or its construction has just failed)
Constructed == pc \in {"idle", "init_raised"} /\ nOps = 0

\* cells of the sheet as it was when the operation was called
Cells0 == {Cell(r, c) : r \in Rows(sheet0), c \in Cols(sheet0)}

\* the grid has kept its shape and these are the cells whose value changed
SameShape == Len(sheet) = Len(sheet0) /\ Cols(sheet) = Cols(sheet0)
Changed == {x \in Cells0 : sheet[x.row][x.col] # sheet0[x.row][x.col]}

\* update_record's arguments against the sheet as it was at the call:
\* the first column of row 1 named identifier_column, the first row of that
\* column holding str(identifier_value), the first column of row 1 named
\* column_to_update (0 when there is none)
IdCol0 ==
  LET cs == {c \in Cols(sheet0) : sheet0[1][c] = args.idcol}
  IN IF cs = {} THEN 0 ELSE CHOOSE c \in cs : \A d \in cs : c <= d
IdRow0 ==
  LET rs == {r \in Rows(sheet0) : IdCol0 # 0 /\ sheet0[r][IdCol0] = Str(args.idval)}
  IN IF rs = {} THEN 0 ELSE CHOOSE r \in rs : \A q \in rs : r <= q
UpdCol0 ==
  LET cs == {c \in Cols(sheet0) : sheet0[1][c] = args.col}
  IN IF cs = {} THEN 0 ELSE CHOOSE c \in cs : \A d \in cs : c <= d

\* update_record ran to its end with a session, every lookup can succeed, no
\* remote call failed and nobody else edited the sheet
UpdateApplies ==
  /\ Done("update_record")
  /\ gc
  /\ err = "none"
  /\ ~edited
  /\ IdCol0 # 0
  /\ IdRow0 # 0
  /\ UpdCol0 # 0

\* rows of the status column holding the active marker at the call
ActiveRows0 ==
  {r \in Rows(sheet0) : StatusCol \in Cols(sheet0) /\ sheet0[r][StatusCol] = ActiveMarker}


(***************************************************************************)
(* Properties.                                                             *)
(***************************************************************************)

\* C1: constructing the adapter never raises, and whenever authentication
\* did not succeed (configuration absent, malformed, not a mapping, without a
\* valid credential path, or rejected) the session is left unset.
C1_InitNeverRaises ==
  (Constructed /\ err # "ok") => (~initRaised /\ ~gc)

\* C2: without a session every public data operation returns its sentinel
\* (empty sequence or false) and issues no remote call.
C2_AuthenticationGating ==
  (pc = "done" /\ op \in DataOps /\ ~gc) => (ReturnsSentinel /\ calls = 0)

\* C3: whatever the outcome of the remote calls a public operation makes, it
\* ends by returning, never by raising to its caller.
C3_NoErrorPropagates ==
  (pc = "done" /\ op \in DataOps /\ calls > 0) => ret # "raised"

C5_UpdateMissLeavesSheet ==
  (Done("update_record") /\ miss # "none") =>
    /\ ret = "False"
    /\ writes = 0
    /\ (~edited => sheet = sheet0)

\* C5 witness: the identifier row was found, the target column was not.
C5_Witness ==
  /\ Done("update_record")
  /\ miss = "column_to_update"
  /\ ~edited
  /\ IdRow0 # 0

\* C6: when deactivate_all_processes runs with a session, no remote error and
\* no other writer, it returns true, every cell of column 10 that held "SI"
\* holds "NO", every other cell is unchanged, and it has issued as many
\* write-cell calls as there were "SI" cells.
C6_DeactivationSweep ==
  (Done("deactivate_all_processes") /\ gc /\ err = "none" /\ ~edited) =>
    /\ ret = "True"
    /\ SameShape
    /\ \A x \in Cells0 :
         sheet[x.row][x.col] =
           IF x.col = StatusCol /\ sheet0[x.row][x.col] = ActiveMarker
           THEN InactiveMarker ELSE sheet0[x.row][x.col]
    /\ writes = Cardinality(ActiveRows0)

\* C6 witness: a sweep over a status column mixing active cells (the header
\* row's among them) with other values.
C6_Witness ==
  /\ Done("deactivate_all_processes")
  /\ ret = "True"
  /\ ~edited
  /\ 1 \in ActiveRows0
  /\ Cardinality(ActiveRows0) >= 2
  /\ ActiveRows0 # Rows(sheet0)

\* C7: update_record returns true having written to a row whose identifier
\* cell no longer held the identifier value, or to a column whose header was
\* no longer column_to_update, only when another writer edited the sheet
\* between its remote calls; and such a state is reachable (C7_Witness).
C7_StaleWriteOnlyByRace ==
  (Done("update_record") /\ ret = "True" /\ (staleRow \/ staleCol)) => edited

\* C7 witness: update_record returned true and the row it wrote to no longer
\* matched the identifier value at the moment of the write.
C7_Witness ==
  /\ Done("update_record")
  /\ ret = "True"
  /\ staleRow
  /\ writes = 1

\* C8: when row 1 holds no cell equal to identifier_column, update_record
\* returns false and writes nothing, even if a cell below row 1 holds it
\* (stated for the calls in which no remote call fails and no other writer
\* edits the sheet, so that only the lookup decides).
C8_LookupConfinedToHeaderRow ==
  (Done("update_record") /\ err = "none" /\ ~edited /\ IdCol0 = 0) =>
    (ret = "False" /\ writes = 0 /\ sheet = sheet0)

\* C9: when the k-th write-cell call of deactivate_all_processes fails with a
\* remote-service error (and no other writer interferes), the call returns
\* false, the first k-1 active cells keep "NO", the remaining active cells
\* keep "SI", and nothing else has changed.
C9_DeactivationNotTransactional ==
  (Done("deactivate_all_processes") /\ err = "gspread" /\ k >= 1 /\ ~edited) =>
    /\ ret = "False"
    /\ SameShape
    /\ writes = k - 1
    /\ writes < Cardinality(ActiveRows0)
    /\ \A x \in Cells0 :
         sheet[x.row][x.col] =
           IF /\ x.col = StatusCol
              /\ x.row \in ActiveRows0
              /\ Cardinality({r \in ActiveRows0 : r < x.row}) < writes
           THEN InactiveMarker ELSE sheet0[x.row][x.col]

\* C9 witness: the second of three writes failed.
C9_Witness ==
  /\ Done("deactivate_all_processes")
  /\ err = "gspread"
  /\ ~edited
  /\ k = 2
  /\ writes = 1
  /\ Cardinality(ActiveRows0) >= 3

\* C10: without another writer, update_record leaves row 1 as it was.
C10_HeaderRowUnchanged ==
  (Done("update_record") /\ ~edited) => sheet[1] = sheet0[1]
====
